---- MODULE Spec2Model ----
(***************************************************************************)
(* The result-buffer protocol and the command dispatch rule of erlxsl.h:   *)
(* the macros get_task, assign_result_buffer, write_result_buffer and      *)
(* clear_result_buffer acting on one Command and its result DriverIOVec.   *)
(*                                                                         *)
(* Memory is modelled at the level the macros touch it: the result's      *)
(* payload buffer is a block of as many cells as alloc was asked for, with *)
(* a few mapped cells of its neighbours behind it, and what is seen of it  *)
(* is the C string found at its start.  strcpy and strcat store without    *)
(* looking at the block's size, as libc does.  clear_result_buffer is      *)
(* modelled as the expression the header means: as written, the macro      *)
(* lacks its last closing parenthesis.                                     *)
(***************************************************************************)
EXTENDS Integers, Sequences, FiniteSets, TLC

(* ------------------------------ bounds -------------------------------- *)
\* largest buffersize handed to assign_result_buffer
MaxSize == 3
\* heap cells mapped beyond the largest buffer; past them memory is unmapped
Slack == 1
\* longest string handed to write_result_buffer
MaxWriteLen == 2
\* blocks the allocator can hand out before it is exhausted
MaxAllocs == 2

(* --------------------------- C level values --------------------------- *)
\* the null pointer
NULL == 0
\* address of the one Command the host holds
CmdAddr == 1
\* address of the Command's result DriverIOVec header, when it has one
IovAddr == 1

\* typedef enum { Binary, Object, Text, Opaque } DataFormat
Binary == 0
Object == 1
Text == 2
Opaque == 3
DataFormat == {Binary, Object, Text, Opaque}

\* the string terminator, and the bytes a char can hold in the model
NUL == 0
Chars == {1, 2}
\* the byte that stands for what uninitialised cells hold
GarbageByte == 2

\* "transform" as its ASCII bytes
TransformLiteral == <<116, 114, 97, 110, 115, 102, 111, 114, 109>>

\* the byte a C string holds at index i (1-based): past its last char, NUL
CharAt(s, i) == IF i <= Len(s) THEN s[i] ELSE NUL

(* strncmp: compares at most n bytes *)
RECURSIVE strncmp_from(_, _, _, _)
strncmp_from(s1, s2, i, n) ==
    IF i > n THEN 0
    ELSE IF CharAt(s1, i) # CharAt(s2, i) THEN CharAt(s1, i) - CharAt(s2, i)
    ELSE IF CharAt(s1, i) = NUL THEN 0
    ELSE strncmp_from(s1, s2, i + 1, n)

\* a comparison of the first strlen(s1) bytes only
strcmp_prefix(s1, s2) == strncmp_from(s1, s2, 1, Len(s1))

(* strcmp: byte by byte up to and including the terminator *)
RECURSIVE strcmp_from(_, _, _)
strcmp_from(s1, s2, i) ==
    IF CharAt(s1, i) # CharAt(s2, i) THEN CharAt(s1, i) - CharAt(s2, i)
    ELSE IF CharAt(s1, i) = NUL THEN 0
    ELSE strcmp_from(s1, s2, i + 1)

strcmp(s1, s2) == strcmp_from(s1, s2, 1)

(* ------------------------------- state -------------------------------- *)
VARIABLES
    cmd,      \* the Command: command_string, command_data, result, alloc, release
    iov,      \* the DriverIOVec cmd.result points to: dirty, type, size, buffer
    mem,      \* the C string found at the payload buffer
    cap,      \* the cells the payload buffer's block owns
    heap,     \* per block handed out by cmd.alloc, the deallocators it was given to
    calls,    \* the allocation functions called so far
    ret,      \* what the last macro evaluated to
    fault,    \* the process has been killed by a memory fault
    overrun,  \* the last macro issued a store past the end of the payload buffer
    last,     \* the last macro evaluated: its name, its cmd and buffersize, and
              \* for clear whether the buffer held written bytes
    expected, \* bytes handed to write_result_buffer since the last assign/clear
    phase,    \* "none", "assigned" (no write since), "written", "cleared"
    doc,      \* an InputDocument and the DriverIOVec its iov points to
    life,     \* an XslEngine: its slots, and where the host is in its lifecycle
    task,     \* an XslTask, its ParameterListNodes, and a walk along them
    envs      \* per Command a host holds at once: result header, payload, blocks

vars == <<cmd, iov, mem, cap, heap, calls, ret, fault, overrun, last, expected,
          phase, doc, life, task, envs>>

\* the state of the one Command and its result buffer, but for ret and last
buffervars == <<cmd, iov, mem, cap, heap, calls, fault, overrun, expected, phase>>
\* what the macros on a Command never touch
rest == <<doc, life, task, envs>>

MemLen == MaxSize + Slack
\* most bytes written between two assign/clear calls
MaxTotal == MemLen
Sizes == 0..MaxSize

\* the strings a caller writes: every string of Chars up to MaxWriteLen long
RECURSIVE StringsUpTo(_)
StringsUpTo(n) ==
    IF n = 0 THEN {<<>>}
    ELSE LET shorter == StringsUpTo(n - 1)
         IN  shorter \cup {Append(s, c) : s \in shorter, c \in Chars}
WriteStrings == StringsUpTo(MaxWriteLen)


(* ------------------------------ memory -------------------------------- *)
(* mem is what a reader finds at the payload buffer: the C string there,   *)
(* that is the bytes before the first NUL, or NoString when no NUL lies in *)
(* the mapped cells.  A string of n bytes occupies n + 1 cells.  The block *)
(* owns the first cap of the MemLen mapped cells; the others are its      *)
(* neighbours on the heap.                                                 *)
NoString == <<NUL>>

\* cells a C string occupies, terminator included
CellsOf(s) == Len(s) + 1

(* What storing the string s and its terminator into a block of k cells    *)
(* can do.  Inside the block the stores are defined.  Past its end the     *)
(* behaviour is undefined: the bytes land in the neighbouring cells, or    *)
(* the process is killed (a guard page, a hardened allocator); past the    *)
(* mapped cells only the fault remains.                                    *)
StoreString(k, s) ==
    IF CellsOf(s) <= k
    THEN {[mem |-> s, fault |-> FALSE, overrun |-> FALSE]}
    ELSE {[mem |-> NoString, fault |-> TRUE, overrun |-> TRUE]}
         \cup (IF CellsOf(s) <= MemLen
               THEN {[mem |-> s, fault |-> FALSE, overrun |-> TRUE]}
               ELSE {})

(* A store through the null pointer is undefined: the process is killed, or *)
(* the build drops the store and runs on.                                   *)
NullStore(m) ==
    {[mem |-> m, fault |-> TRUE, overrun |-> FALSE],
     [mem |-> m, fault |-> FALSE, overrun |-> FALSE]}

\* strcpy(dest, src): src and its terminator stored from the start of dest
strcpy(m, k, dest, src) ==
    IF dest = NULL THEN NullStore(m)
    ELSE StoreString(k, src)

\* strcat(dest, src): src and its terminator stored from dest's first NUL on;
\* a scan that meets no NUL runs off the mapped cells
strcat(m, k, dest, src) ==
    IF dest = NULL THEN NullStore(m)
    ELSE IF m = NoString
         THEN {[mem |-> m, fault |-> TRUE, overrun |-> FALSE]}
         ELSE StoreString(k, m \o src)

\* what cmd->alloc(size) can return: a fresh block, or NULL when it has none
\* left or refuses
alloc(h) == {NULL} \cup (IF Len(h) < MaxAllocs THEN {Len(h) + 1} ELSE {})

\* the heap after alloc returned p: a block nobody has released yet
Allocated(h, p) == IF p = NULL THEN h ELSE Append(h, <<>>)

\* the cells the block at p owns, when alloc was asked for n bytes
BlockCells(p, n) == IF p = NULL THEN 0 ELSE n

(* What a reader finds at a fresh block: anything.  The block is not       *)
(* initialised, so the first NUL lies anywhere in it, in its neighbours or  *)
(* nowhere; one non-NUL byte stands for the bytes before it.                *)
FreshMem(p) ==
    IF p = NULL THEN {NoString}
    ELSE {NoString} \cup {[i \in 1..n |-> GarbageByte] : n \in 0..(MemLen - 1)}

\* FREE(p): the block p is released by the deallocator FREE; FREE(NULL) frees nothing
FREE(h, p) ==
    IF p = NULL THEN h ELSE [h EXCEPT ![p] = Append(@, "FREE")]

\* the string the payload buffer holds within its own cells, if it holds one
Content(v, m, k) ==
    IF v.buffer = NULL THEN NoString
    ELSE IF m # NoString /\ CellsOf(m) <= k THEN m
    ELSE NoString

(* ---------------------------- the Command ----------------------------- *)
\* a Command as the host builds it: the union command_data is one pointer,
\* read as xsl_task or as iov; result points to a DriverIOVec header or is NULL
Command(str, data, res) ==
    [command_string |-> str, command_data |-> data, result |-> res,
     context |-> NULL, alloc |-> "alloc", release |-> "release"]

\* a DriverIOVec header as the host hands it over: zeroed
NewIOVec == [dirty |-> 0, type |-> Binary, size |-> 0, buffer |-> NULL]

\* typedef enum { File = 1, Buffer = 2, Stream = 3 } InputType
File == 1
Buffer == 2
Stream == 3
InputType == {File, Buffer, Stream}

\* an InputDocument: its type, its iov pointer, and the DriverIOVec found there
InputDocument(kind, iovptr, vec) == [type |-> kind, iov |-> iovptr, vec |-> vec]

\* no document is looked at
NoDocument == InputDocument(File, NULL, NewIOVec)

\* "no value yet" for a field that holds a DriverState or an EngineState
None == -1

\* the four function slots of an XslEngine
Slots == {"command", "transform", "after_transform", "shutdown"}

\* an XslEngine the provider has not been loaded into yet
NoEngine ==
    [state |-> "Uninitialized", load |-> None, slots |-> {}, result |-> None,
     served |-> 0, called |-> "none", env |-> NULL]

\* an XslTask with no parameters: the nodes by address, the addresses in
\* the order they were inserted, and a walk (at, steps, visited) not begun
XslTask ==
    [input_doc |-> NULL, xslt_doc |-> NULL, parameters |-> NULL, nodes |-> <<>>,
     inserted |-> <<>>, walking |-> FALSE, at |-> NULL, steps |-> 0,
     visited |-> <<>>]

\* the Command envelopes a host holds
Envelopes == {1, 2}

\* each envelope as the host builds it: a zeroed result header, no payload,
\* and an allocator of its own that has handed out nothing
NewEnvelopes ==
    [e \in Envelopes |-> [iov |-> NewIOVec, mem |-> NoString, cap |-> 0, heap |-> <<>>]]

\* the state outside the Command, when only the Command is acted on
RestIdle ==
    doc = NoDocument /\ life = NoEngine /\ task = XslTask /\ envs = NewEnvelopes

Init ==
    /\ RestIdle
    /\ cmd \in {Command(TransformLiteral, 1, res) : res \in {NULL, IovAddr}}
    /\ iov = NewIOVec
    /\ mem = NoString
    /\ cap = 0
    /\ heap = <<>>
    /\ calls = {}
    /\ ret = NULL
    /\ fault = FALSE
    /\ overrun = FALSE
    /\ last = [op |-> "none", c |-> NULL, n |-> 0, wrote |-> FALSE]
    /\ expected = <<>>
    /\ phase = "none"

\* the record of the macro just evaluated
Did(op, c, n, wrote) == [op |-> op, c |-> c, n |-> n, wrote |-> wrote]

(* --------------------------- get_task(cmd) ---------------------------- *)
\* the value of the macro for the pointer c to the Command cm
get_task(c, cm) ==
    IF c = NULL THEN NULL
    ELSE IF strcmp(TransformLiteral, cm.command_string) = 0
         THEN cm.command_data
         ELSE NULL

(* ---------------- assign_result_buffer(buffersize, cmd) ---------------- *)
\* the stores of the macro into the header: type, size, payload.buffer
AssignStores(v, buffersize, p) ==
    [v EXCEPT !.type = Text, !.size = buffersize, !.buffer = p]

assign_result_buffer(buffersize, c) ==
    /\ ~fault
    /\ UNCHANGED rest
    /\ last' = Did("assign", c, buffersize, FALSE)
    /\ overrun' = FALSE
    /\ IF c = NULL
       THEN /\ ret' = NULL
            /\ UNCHANGED <<cmd, iov, mem, cap, heap, calls, fault, expected, phase>>
       ELSE IF cmd.result = NULL
       THEN \* (cmd->result)->type = Text stores through a null pointer
            \/ /\ fault' = TRUE
               /\ UNCHANGED <<cmd, iov, mem, cap, heap, calls, ret, expected, phase>>
            \/ \E p \in alloc(heap) :
                  /\ heap' = Allocated(heap, p)
                  /\ calls' = calls \cup {"alloc"}
                  /\ ret' = p
                  /\ UNCHANGED <<cmd, iov, mem, cap, fault, expected, phase>>
       ELSE \E p \in alloc(heap) :
               /\ iov' = AssignStores(iov, buffersize, p)
               /\ heap' = Allocated(heap, p)
               /\ calls' = calls \cup {"alloc"}
               /\ cap' = BlockCells(p, buffersize)
               /\ mem' \in FreshMem(p)
               /\ ret' = p
               /\ expected' = <<>>
               /\ phase' = "assigned"
               /\ UNCHANGED <<cmd, fault>>

(* ------------------- write_result_buffer(buff, cmd) -------------------- *)
\* a guard that looks at the Command pointer alone
NoCommand(c, cm) == c = NULL

\* the guard of write_result_buffer and clear_result_buffer
NoResult(c, cm) == c = NULL \/ cm.result = NULL

\* the branch taken: strcat onto a dirty buffer, else dirty = 1 and strcpy
WriteOutcomes(v, m, k, buff) ==
    IF v.dirty # 0 THEN strcat(m, k, v.buffer, buff)
    ELSE strcpy(m, k, v.buffer, buff)

write_result_buffer(buff, c) ==
    /\ ~fault
    /\ UNCHANGED rest
    /\ Len(expected) + Len(buff) <= MaxTotal
    /\ last' = Did("write", c, 0, FALSE)
    /\ IF NoResult(c, cmd)
       THEN /\ ret' = NULL
            /\ overrun' = FALSE
            /\ UNCHANGED <<cmd, iov, mem, cap, heap, calls, fault, expected, phase>>
       ELSE \E o \in WriteOutcomes(iov, mem, cap, buff) :
               /\ iov' = [iov EXCEPT !.dirty = 1]
               /\ mem' = o.mem
               /\ fault' = o.fault
               /\ overrun' = o.overrun
               /\ ret' = IF o.fault THEN ret ELSE iov.buffer
               /\ expected' = expected \o buff
               /\ phase' = IF phase = "assigned" THEN "written" ELSE phase
               /\ UNCHANGED <<cmd, cap, heap, calls>>

(* ---------------------- clear_result_buffer(cmd) ----------------------- *)
\* the payload dropped, the dirty bit left as it is
ClearStoresKeepDirty(v) == [v EXCEPT !.buffer = NULL]

\* a clear that also forgets the declared size
ClearStoresZeroSize(v) == [v EXCEPT !.dirty = 0, !.size = 0, !.buffer = NULL]

\* the stores of the macro into the header: dirty = 0, payload.buffer = NULL
ClearStores(v) == [v EXCEPT !.dirty = 0, !.buffer = NULL]

clear_result_buffer(c) ==
    /\ ~fault
    /\ UNCHANGED rest
    /\ overrun' = FALSE
    /\ IF NoResult(c, cmd)
       THEN /\ ret' = NULL
            /\ last' = Did("clear", c, 0, FALSE)
            /\ UNCHANGED <<cmd, iov, mem, cap, heap, calls, fault, expected, phase>>
       ELSE /\ iov' = ClearStores(iov)
            /\ heap' = FREE(heap, iov.buffer)
            /\ calls' = calls \cup {"FREE"}
            /\ mem' = NoString
            /\ cap' = 0
            /\ ret' = NULL
            /\ last' = Did("clear", c, 0,
                           phase = "written" /\ Content(iov, mem, cap) = expected)
            /\ expected' = <<>>
            /\ phase' = "cleared"
            /\ UNCHANGED <<cmd, fault>>

(* --------------------------- specifications --------------------------- *)
\* the pointers a caller can hand to a macro as cmd
CmdPointers == {NULL, CmdAddr}

GetTask ==
    \E c \in CmdPointers :
        /\ ~fault
        /\ ret' = get_task(c, cmd)
        /\ last' = Did("get_task", c, 0, FALSE)
        /\ UNCHANGED rest
        /\ UNCHANGED <<cmd, iov, mem, cap, heap, calls, fault, overrun,
                       expected, phase>>

Assign == \E n \in Sizes, c \in CmdPointers : assign_result_buffer(n, c)
Write == \E b \in WriteStrings, c \in CmdPointers : write_result_buffer(b, c)
Clear == \E c \in CmdPointers : clear_result_buffer(c)

\* the result-buffer protocol on one Command
Next == Assign \/ Write \/ Clear

Spec == Init /\ [][Next]_vars

(* get_task on Commands of every kind: the command strings are the prefixes *)
(* of "transform", and strings that differ from it in case, in one byte or  *)
(* by a byte before or after it; command_data is any pointer.               *)
Prefixes(s) == {SubSeq(s, 1, n) : n \in 0..Len(s)}

CommandStrings ==
    Prefixes(TransformLiteral)
    \cup {TransformLiteral \o <<32>>,                       \* "transform "
          <<32>> \o TransformLiteral,                       \* " transform"
          <<84>> \o Tail(TransformLiteral),                 \* "Transform"
          SubSeq(TransformLiteral, 1, 8) \o <<110>>,        \* "transforn"
          TransformLiteral \o <<115>>,                      \* "transforms"
          <<112, 105, 110, 103>>}                           \* "ping"

DataPointers == {NULL, 1, 2}

InitGetTask ==
    /\ RestIdle
    /\ cmd \in {Command(str, data, IovAddr) :
                    str \in CommandStrings, data \in DataPointers}
    /\ iov = NewIOVec
    /\ mem = NoString
    /\ cap = 0
    /\ heap = <<>>
    /\ calls = {}
    /\ ret = NULL
    /\ fault = FALSE
    /\ overrun = FALSE
    /\ last = Did("none", NULL, 0, FALSE)
    /\ expected = <<>>
    /\ phase = "none"

NextGetTask == GetTask

SpecGetTask == InitGetTask /\ [][NextGetTask]_vars

(* ------------------ get_doc_buffer, get_doc_size, get_buffer ----------- *)
\* address of the one InputDocument, and of the DriverIOVec it can point to
DocAddr == 1
DocIovAddr == 1

\* a get_buffer that does not look at the type tag
get_buffer_any_type(p, v) == IF p = NULL THEN NULL ELSE v.buffer

\* get_buffer(iov), for the pointer p to the DriverIOVec v
get_buffer(p, v) ==
    IF p = NULL THEN NULL
    ELSE IF v.type = Text THEN v.buffer
    ELSE NULL

\* get_doc_buffer(idoc), for the pointer d to the InputDocument dc
get_doc_buffer(d, dc) == IF d = NULL THEN NULL ELSE get_buffer(dc.iov, dc.vec)

\* get_doc_size(idoc), for the pointer d to the InputDocument dc
get_doc_size(d, dc) == IF d = NULL \/ dc.iov = NULL THEN -1 ELSE dc.vec.size

DocPointers == {NULL, DocAddr}

GetDocBuffer ==
    \E d \in DocPointers :
        /\ ret' = get_doc_buffer(d, doc)
        /\ last' = Did("get_doc_buffer", d, 0, FALSE)
        /\ UNCHANGED <<buffervars, doc, life, task, envs>>

GetDocSize ==
    \E d \in DocPointers :
        /\ ret' = get_doc_size(d, doc)
        /\ last' = Did("get_doc_size", d, 0, FALSE)
        /\ UNCHANGED <<buffervars, doc, life, task, envs>>

(* Documents of every kind: any InputType, an iov pointer that is NULL or    *)
(* not, and behind it a DriverIOVec of any format, size and payload pointer. *)
Documents ==
    {InputDocument(kind, p, [dirty |-> 0, type |-> f, size |-> n, buffer |-> b]) :
        kind \in InputType, p \in {NULL, DocIovAddr}, f \in DataFormat,
        n \in Sizes, b \in DataPointers}

\* a Command nothing has been done to, with its zeroed result header
CommandIdle ==
    /\ cmd = Command(TransformLiteral, 1, IovAddr)
    /\ iov = NewIOVec
    /\ mem = NoString
    /\ cap = 0
    /\ heap = <<>>
    /\ calls = {}
    /\ ret = NULL
    /\ fault = FALSE
    /\ overrun = FALSE
    /\ last = Did("none", NULL, 0, FALSE)
    /\ expected = <<>>
    /\ phase = "none"

InitDoc ==
    /\ doc \in Documents
    /\ life = NoEngine
    /\ task = XslTask
    /\ envs = NewEnvelopes
    /\ CommandIdle

NextDoc == GetDocBuffer \/ GetDocSize

SpecDoc == InitDoc /\ [][NextDoc]_vars

(* ------------------------ the provider lifecycle ----------------------- *)
\* most requests one provider serves
MaxRequests == 2

\* typedef enum { Success, InitOk, ... } DriverState
Success == 0
InitOk == 1
LibraryNotFound == 2
EntryPointNotFound == 3
InitFailed == 4
OutOfMemory == 5
UnknownCommand == 6
UnsupportedOperationError == 7
DriverState == Success..UnsupportedOperationError

\* typedef enum { Ok, Error, ... } EngineState
Ok == 0
Error == 1
XmlParseError == 2
XslCompileError == 3
XslTransformError == 4
OutOfMemoryError == 5
EngineState == Ok..OutOfMemoryError

\* "ping": a command_string that is not "transform"
PingLiteral == <<112, 105, 110, 103>>

\* a provider is usable when loading succeeded and all four slots are set
Usable(d, s) == d \in {Success, InitOk} /\ s = Slots

\* where a transform that returned r leaves the lifecycle
transform_state(r) == IF r = Ok THEN "Transformed" ELSE "Failed"

\* a host that gives up on the provider after a failed transform
after_transform_fatal(st) == IF st = "Failed" THEN "Stopped" ELSE "Ready"

\* where after_transform leaves the lifecycle, called in state st
after_transform_state(st) == "Ready"

\* a host that shuts down whenever the provider is loaded and not stopped
CanShutdownBusy(l) == l.state \in {"Ready", "Transformed", "Failed"}

\* the host may call shutdown(state)
CanShutdown(l) == l.state = "Ready"

\* the host loads the provider: a DriverState, and the slots the provider set
Load ==
    /\ life.state = "Uninitialized"
    /\ \E d \in DriverState, s \in SUBSET Slots :
          life' = [life EXCEPT !.load = d, !.slots = s, !.called = "load",
                               !.state = IF Usable(d, s) THEN "Ready" ELSE "Refused"]
    /\ UNCHANGED <<buffervars, ret, last, doc, task, envs>>

(* The host calls command(envelope); when get_task yields a task, transform *)
(* is invoked on the envelope and returns an EngineState.                   *)
Request ==
    /\ life.state = "Ready"
    /\ life.served < MaxRequests
    /\ \E e \in Envelopes, str \in {TransformLiteral, PingLiteral}, r \in EngineState :
          IF get_task(e, Command(str, 1, IovAddr)) = NULL
          THEN life' = [life EXCEPT !.called = "command", !.env = e, !.result = r,
                                    !.served = @ + 1]
          ELSE life' = [life EXCEPT !.called = "transform", !.env = e, !.result = r,
                                    !.served = @ + 1,
                                    !.state = transform_state(r)]
    /\ UNCHANGED <<buffervars, ret, last, doc, task, envs>>

\* the host calls after_transform on the envelope transform was called on
AfterTransform ==
    /\ life.state \in {"Transformed", "Failed"}
    /\ life' = [life EXCEPT !.called = "after_transform",
                            !.state = after_transform_state(life.state)]
    /\ UNCHANGED <<buffervars, ret, last, doc, task, envs>>

\* the host calls shutdown(providerData)
Shutdown ==
    /\ CanShutdown(life)
    /\ life' = [life EXCEPT !.called = "shutdown", !.env = NULL, !.state = "Stopped"]
    /\ UNCHANGED <<buffervars, ret, last, doc, task, envs>>

InitLifecycle ==
    /\ doc = NoDocument
    /\ life = NoEngine
    /\ task = XslTask
    /\ envs = NewEnvelopes
    /\ CommandIdle

NextLifecycle == Load \/ Request \/ AfterTransform \/ Shutdown

SpecLifecycle == InitLifecycle /\ [][NextLifecycle]_vars

(* ------------------------- the parameter chain ------------------------- *)
\* most parameters one XslTask is given
MaxParams == 3

\* the addresses a ParameterListNode can be allocated at
NodeAddrs == 1..MaxParams

\* parameter names
ParamKeys == {1, 2}

\* a ParameterListNode that is the tail
ParameterListNode(k) == [key |-> k, value |-> k, next |-> NULL]

\* the node store with the node nd placed at address a
WithNode(nodes, a, nd) ==
    [x \in DOMAIN nodes \cup {a} |-> IF x = a THEN nd ELSE nodes[x]]

\* the last node of the chain that starts at the node at p
RECURSIVE TailOf(_, _)
TailOf(nodes, p) == IF nodes[p].next = NULL THEN p ELSE TailOf(nodes, nodes[p].next)

\* a new node pushed in front of the chain
push_parameter(t, a, k) ==
    [t EXCEPT !.parameters = a,
              !.nodes = WithNode(t.nodes, a, [ParameterListNode(k) EXCEPT !.next = t.parameters]),
              !.inserted = Append(@, a)]

\* a new node at address a becomes the head of an empty chain, or else the
\* next of the tail
insert_parameter(t, a, k) ==
    IF t.parameters = NULL
    THEN [t EXCEPT !.parameters = a,
                   !.nodes = WithNode(t.nodes, a, ParameterListNode(k)),
                   !.inserted = Append(@, a)]
    ELSE [t EXCEPT !.nodes = WithNode([t.nodes EXCEPT ![TailOf(t.nodes, t.parameters)].next = a],
                                      a, ParameterListNode(k)),
                   !.inserted = Append(@, a)]

\* the host adds a parameter to a task it is still building
InsertParameter ==
    /\ ~task.walking
    /\ \E a \in NodeAddrs \ DOMAIN task.nodes, k \in ParamKeys :
          task' = insert_parameter(task, a, k)
    /\ UNCHANGED <<buffervars, ret, last, doc, life, envs>>

\* the provider starts at the head: p = task->parameters
StartWalk ==
    /\ ~task.walking
    /\ task' = [task EXCEPT !.walking = TRUE, !.at = task.parameters]
    /\ UNCHANGED <<buffervars, ret, last, doc, life, envs>>

\* one step of the walk: visit the node, p = p->next
WalkStep ==
    /\ task.walking
    /\ task.at # NULL
    /\ task' = [task EXCEPT !.at = task.nodes[task.at].next,
                            !.steps = @ + 1,
                            !.visited = Append(@, task.at)]
    /\ UNCHANGED <<buffervars, ret, last, doc, life, envs>>

InitParams ==
    /\ doc = NoDocument
    /\ life = NoEngine
    /\ task = XslTask
    /\ envs = NewEnvelopes
    /\ CommandIdle

NextParams == InsertParameter \/ StartWalk \/ WalkStep

SpecParams == InitParams /\ [][NextParams]_vars

(* ---------------------- several Commands at once ---------------------- *)
\* the sizes and the strings the envelopes are driven with
EnvelopeSizes == {1, 2}
EnvelopeStrings == {<<1>>}

\* the Command behind the pointer e: a "transform" Command with a result header
EnvelopeCommand(e) == Command(TransformLiteral, 1, IovAddr)

\* the bytes of the string s that a block of k cells has no room for,
\* up to the terminator, which is the last byte stored
Spill(s, k) == SubSeq(s, k + 1, Len(s))

\* the envelopes whose payload can lie right behind the block of envelope e
Neighbours(e) == {o \in Envelopes \ {e} : envs[o].iov.buffer # NULL}

\* what is left untouched by the macros on the several envelopes
outsideEnvelopes ==
    <<cmd, iov, mem, cap, heap, calls, overrun, expected, phase, doc, life, task>>

\* get_task(e)
EnvGetTask ==
    \E e \in Envelopes :
        /\ ~fault
        /\ ret' = get_task(e, EnvelopeCommand(e))
        /\ last' = Did("get_task", e, 0, FALSE)
        /\ UNCHANGED <<outsideEnvelopes, envs, fault>>

\* assign_result_buffer(n, e)
EnvAssign ==
    \E e \in Envelopes, n \in EnvelopeSizes :
        /\ ~fault
        /\ \E p \in alloc(envs[e].heap) : \E m \in FreshMem(p) :
              /\ envs' = [envs EXCEPT ![e] =
                             [iov |-> AssignStores(envs[e].iov, n, p),
                              mem |-> m,
                              cap |-> BlockCells(p, n),
                              heap |-> Allocated(envs[e].heap, p)]]
              /\ ret' = p
        /\ last' = Did("assign", e, n, FALSE)
        /\ UNCHANGED <<outsideEnvelopes, fault>>

(* write_result_buffer(b, e).  Bytes stored past the block land in the     *)
(* cells behind it: cells nobody reads, or the payload of another envelope. *)
EnvWrite ==
    \E e \in Envelopes, b \in EnvelopeStrings :
        /\ ~fault
        /\ ~NoResult(e, EnvelopeCommand(e))
        /\ \E o \in WriteOutcomes(envs[e].iov, envs[e].mem, envs[e].cap, b) :
              /\ fault' = o.fault
              /\ ret' = IF o.fault THEN ret ELSE envs[e].iov.buffer
              /\ \E victim \in {NULL} \cup (IF o.overrun /\ ~o.fault
                                            THEN Neighbours(e) ELSE {}) :
                    envs' = [x \in Envelopes |->
                               IF x = e
                               THEN [envs[e] EXCEPT !.iov.dirty = 1, !.mem = o.mem]
                               ELSE IF x = victim
                               THEN [envs[x] EXCEPT !.mem = Spill(o.mem, envs[e].cap)]
                               ELSE envs[x]]
        /\ last' = Did("write", e, 0, FALSE)
        /\ UNCHANGED outsideEnvelopes

\* clear_result_buffer(e)
EnvClear ==
    \E e \in Envelopes :
        /\ ~fault
        /\ ~NoResult(e, EnvelopeCommand(e))
        /\ envs' = [envs EXCEPT ![e] =
                       [iov |-> ClearStores(envs[e].iov),
                        mem |-> NoString,
                        cap |-> 0,
                        heap |-> FREE(envs[e].heap, envs[e].iov.buffer)]]
        /\ ret' = NULL
        /\ last' = Did("clear", e, 0, FALSE)
        /\ UNCHANGED <<outsideEnvelopes, fault>>

InitEnvelopes ==
    /\ doc = NoDocument
    /\ life = NoEngine
    /\ task = XslTask
    /\ envs = NewEnvelopes
    /\ CommandIdle

NextEnvelopes == EnvGetTask \/ EnvAssign \/ EnvWrite \/ EnvClear

SpecEnvelopes == InitEnvelopes /\ [][NextEnvelopes]_vars

(* ------------------------------- claims -------------------------------- *)
\* the macro just evaluated was op, on the Command itself (not on NULL)
JustDid(op) == last.op = op /\ last.c # NULL

\* the string the result's payload buffer holds now
ResultContent == Content(iov, mem, cap)

(* C1: get_task yields the Command's task (its command_data) exactly when   *)
(* the Command pointer is not NULL and command_string is "transform", byte  *)
(* for byte; for NULL and for every other string it yields NULL.            *)
C1_GetTaskIffTransform ==
    last.op = "get_task" =>
        IF last.c # NULL /\ cmd.command_string = TransformLiteral
        THEN ret = cmd.command_data
        ELSE ret = NULL

\* get_task has handed out the task of a "transform" Command
C1_Witness ==
    /\ JustDid("get_task")
    /\ cmd.command_string = TransformLiteral
    /\ ret = cmd.command_data
    /\ ret # NULL

(* C2: write_result_buffer never stores a byte past the cells of the result *)
(* buffer.                                                                  *)
C2_WriteStaysInsideBuffer == ~overrun

(* C3: after an assign on a Command whose alloc returned a buffer, and one  *)
(* or more writes with no clear or assign in between, the result buffer     *)
(* holds exactly the written strings, concatenated in call order.           *)
C3_WritesConcatenate ==
    (phase = "written" /\ iov.buffer # NULL) => ResultContent = expected

(* C4: the first write to a freshly assigned buffer (dirty = 0), whatever   *)
(* the buffer held, leaves it holding exactly the written string, with      *)
(* dirty = 1.                                                               *)
C4_FirstWriteOverwrites ==
    [][(/\ phase = "assigned"
        /\ iov.dirty = 0
        /\ iov.buffer # NULL
        /\ last'.op = "write"
        /\ last'.c # NULL)
       => (ResultContent' = expected' /\ iov'.dirty = 1)]_vars

(* C5: right after assign_result_buffer(n, cmd) the result has type Text,   *)
(* size n, dirty = 0 and the buffer alloc returned as its payload; stated   *)
(* here for an assign that follows writes which stayed inside the buffer.   *)
C5_AssignEstablishes ==
    [][(/\ phase = "written"
        /\ ResultContent = expected
        /\ last'.op = "assign"
        /\ last'.c # NULL)
       => (/\ iov'.type = Text
           /\ iov'.size = last'.n
           /\ iov'.buffer = ret'
           /\ iov'.dirty = 0)]_vars

(* C6: clear_result_buffer on a Command with a result leaves dirty = 0 and  *)
(* the payload buffer NULL, whatever was assigned and written before.       *)
C6_ClearResets ==
    (JustDid("clear") /\ cmd.result # NULL) =>
        (iov.dirty = 0 /\ iov.buffer = NULL)

\* a buffer was assigned and written to, and clear has released it
C6_Witness ==
    /\ JustDid("clear")
    /\ last.wrote
    /\ \E p \in 1..Len(heap) : heap[p] # <<>>
    /\ iov.dirty = 0
    /\ iov.buffer = NULL

(* C7: a write issued directly after a clear (which followed an assign and  *)
(* writes), with no assign in between, stores exactly the written string as *)
(* the result's content and sets dirty = 1.                                 *)
C7_WriteAfterClearIsFirstWrite ==
    [][(/\ JustDid("clear")
        /\ last.wrote
        /\ last'.op = "write"
        /\ last'.c # NULL)
       => (ResultContent' = expected' /\ iov'.dirty = 1)]_vars

(* C8: every buffer obtained from cmd->alloc that has been released was     *)
(* released through cmd->release and through no other deallocator.          *)
C8_ReleasedThroughRelease ==
    \A p \in 1..Len(heap) : \A i \in 1..Len(heap[p]) : heap[p][i] = cmd.release

(* C9: assign_result_buffer on any Command, also one whose result is NULL,  *)
(* does not fail and leaves the Command with a result of type Text, size n  *)
(* and the new buffer as payload.                                           *)
C9_AssignTotal ==
    JustDid("assign") =>
        /\ ~fault
        /\ cmd.result # NULL
        /\ iov.type = Text
        /\ iov.size = last.n
        /\ iov.buffer = ret

(* C10: write_result_buffer and clear_result_buffer on a NULL Command or on *)
(* a Command whose result is NULL evaluate to NULL, call neither alloc nor  *)
(* a deallocator, and change no field of the Command or of anything it      *)
(* points to.                                                               *)
C10_NoOpWithoutResult ==
    [][(/\ last'.op \in {"write", "clear"}
        /\ (last'.c = NULL \/ cmd.result = NULL))
       => (/\ ret' = NULL
           /\ cmd' = cmd
           /\ iov' = iov
           /\ mem' = mem
           /\ cap' = cap
           /\ heap' = heap
           /\ calls' = calls
           /\ fault' = fault)]_vars

\* clear was handed NULL while the Command holds a written, unreleased buffer
C10_Witness ==
    /\ last.op = "clear"
    /\ last.c = NULL
    /\ ret = NULL
    /\ iov.dirty = 1
    /\ iov.buffer # NULL
    /\ heap[iov.buffer] = <<>>
    /\ ResultContent = expected
    /\ expected # <<>>

C17_DocSizeOrNull ==
    last.op = "get_doc_size" =>
        IF last.c # NULL /\ doc.iov # NULL
        THEN ret = doc.vec.size
        ELSE ret = NULL

\* an Assign took place on a Command with a result header, no Clear since
Accumulating == cmd.result # NULL /\ phase \in {"assigned", "written"}

\* the blocks alloc has handed out so far
Blocks == 1..Len(heap)

(* C12: between an Assign and the next Clear the payload buffer it          *)
(* installed is never replaced: a Write or a further Assign leaves          *)
(* result->payload.buffer pointing at the same block.                       *)
C12_NeverReplaced ==
    [][(/\ Accumulating
        /\ iov.buffer # NULL
        /\ last'.op \in {"assign", "write"})
       => iov'.buffer = iov.buffer]_vars

(* C16: a Write and a Clear leave the result's size and type as they were   *)
(* and leave the header attached to the Command (cmd->result unchanged); a  *)
(* Clear releases no block but the payload; so the size stays the one the   *)
(* last Assign stored until the next Assign.                                *)
C16_WriteClearFrame ==
    [][(last'.op \in {"write", "clear"})
       => /\ iov'.size = iov.size
          /\ iov'.type = iov.type
          /\ cmd' = cmd
          /\ \A p \in Blocks : p # iov.buffer => heap'[p] = heap[p]
          /\ Len(heap') = Len(heap)]_vars

\* a Clear released the payload of a written result and kept size and type
C16_Witness ==
    /\ JustDid("clear")
    /\ last.wrote
    /\ cmd.result = IovAddr
    /\ iov.size >= 1
    /\ iov.type = Text
    /\ iov.buffer = NULL
    /\ \E p \in Blocks : heap[p] # <<>>

(* C18: on a Command with a result header, every block alloc returned is    *)
(* the current payload and not released, or has been released exactly       *)
(* once.                                                                    *)
C18_NoLeakNoDoubleRelease ==
    cmd.result # NULL =>
        \A p \in Blocks :
            IF iov.buffer = p THEN heap[p] = <<>> ELSE Len(heap[p]) = 1

(* C20: when alloc returns NULL inside Assign, Assign evaluates to NULL,    *)
(* and a later Write on that Command stores nothing through the absent      *)
(* payload: it changes no memory and does not fault.                        *)
C20_AllocFailureContained ==
    [][/\ (/\ last'.op = "assign"
           /\ last'.c # NULL
           /\ cmd.result # NULL
           /\ iov'.buffer = NULL)
          => ret' = NULL
       /\ (/\ last'.op = "write"
           /\ last'.c # NULL
           /\ Accumulating
           /\ iov.buffer = NULL)
          => (~fault' /\ mem' = mem)]_vars

(* C13: shutdown is called only in state Ready, on a provider whose load    *)
(* succeeded and whose four slots are set, never while a request awaits     *)
(* after_transform; and Stopped is terminal: no call follows shutdown.      *)
C13_ShutdownOnlyWhenReady ==
    [][/\ (life'.state = "Stopped" /\ life.state # "Stopped")
          => /\ life'.called = "shutdown"
             /\ life.state = "Ready"
             /\ life.slots = Slots
             /\ life.load \in {Success, InitOk}
       /\ life.state = "Stopped" => life' = life
       /\ life.state = "Refused" => life' = life]_vars

\* a provider was shut down after it served a failed and a finished request
C13_Witness ==
    /\ life.state = "Stopped"
    /\ life.called = "shutdown"
    /\ life.served = MaxRequests
    /\ life.result # Ok

Take(q, n) == SubSeq(q, 1, n)

(* C15: a walk from task->parameters along next, on a task built by N       *)
(* insertions, has visited after each step the nodes inserted first, in     *)
(* insertion order and none twice, and stands on NULL exactly when it has   *)
(* made N steps: it ends within N steps and the chain has no cycle.         *)
C15_WalkTerminatesInOrder ==
    task.walking =>
        /\ task.steps <= Len(task.inserted)
        /\ task.visited = Take(task.inserted, task.steps)
        /\ \A i, j \in 1..Len(task.visited) :
               task.visited[i] = task.visited[j] => i = j
        /\ (task.at = NULL) <=> (task.steps = Len(task.inserted))

\* a walk over MaxParams parameters, not allocated in address order, has ended
C15_Witness ==
    /\ task.walking
    /\ task.at = NULL
    /\ task.steps = MaxParams
    /\ task.inserted[1] > task.inserted[2]

\* the string envelope x holds inside its own payload block, if it holds one
EnvContent(x) == Content(x.iov, x.mem, x.cap)

(* C19: a macro evaluated on one Command leaves every other Command's       *)
(* result header (dirty, type, size, payload pointer) and the blocks of its *)
(* allocator as they were, and leaves the string another Command has        *)
(* written inside its own payload as it was.                                *)
C19_EnvelopeIsolation ==
    [][\A e \in Envelopes :
          (last'.c = e /\ last'.op \in {"get_task", "assign", "write", "clear"})
          => \A o \in Envelopes \ {e} :
                /\ envs'[o].iov = envs[o].iov
                /\ envs'[o].heap = envs[o].heap
                /\ (envs[o].iov.dirty = 1 /\ EnvContent(envs[o]) # NoString)
                   => EnvContent(envs'[o]) = EnvContent(envs[o])]_vars

====
